---- MODULE Spec2Model ----
(***************************************************************************)
(* Model of src/main.go: an in-memory user registry served over HTTP.      *)
(* Every request runs userHandler.ServeHTTP in its own goroutine; the      *)
(* goroutines share one datastore (a map guarded by a sync.RWMutex).       *)
(* The model starts where ServeHTTP is entered: a request is a method, a   *)
(* path and a body as the handler receives them.                           *)
(*                                                                         *)
(* Strings that the code inspects character by character (the URL path,    *)
(* the user id) are sequences of one-character strings; the literal        *)
(* "/users" that every pattern starts with is the single element "/users". *)
(***************************************************************************)
EXTENDS Integers, Sequences, FiniteSets, Bags, TLC

\* ---------------------------------------------------------------- bounds
NProcs == 2        \* request goroutines that can be in flight together
MaxReqs == 3       \* requests served in one behaviour

Procs == 1..NProcs

\* ------------------------------------------------------ program constants
StatusOK == 200
StatusBadRequest == 400
StatusNotFound == 404
StatusInternalServerError == 500

\* ------------------------------------------------------------- the inputs
Digits == {"0", "1", "2", "3", "4", "5", "6", "7", "8", "9"}

EmptyId == << >>
Ids == {EmptyId, <<"1">>, <<"a">>}
Names == {"A", "B"}

Bare == {<<"/users">>, <<"/users", "/">>}
Paths == Bare \cup {<<"/users", "/">> \o i : i \in Ids}

\* A request body: bytes that are no JSON value, or a JSON object whose
\* members are strings or numbers.
JStr(s) == [t |-> "string", s |-> s]
JNum == [t |-> "number", s |-> << >>]
Garbage == [json |-> FALSE, obj |-> << >>]
Object(o) == [json |-> TRUE, obj |-> o]
NoBody == [json |-> FALSE, obj |-> << >>]

Bodies ==
    {Garbage,
     Object(<< >>),
     Object([id |-> JNum]),
     Object([id |-> JStr(<<"a">>), name |-> JStr("A")])}
        \cup {Object([id |-> JStr(<<"1">>), name |-> JStr(n)]) : n \in Names}

Req(mth, pth, b) == [method |-> mth, path |-> pth, body |-> b]

Requests ==
    {Req(mth, pth, NoBody) : mth \in {"GET", "DELETE"}, pth \in Paths}
        \cup {Req("POST", <<"/users">>, b) : b \in Bodies}
        \cup {Req("POST", <<"/users", "/", "1">>,
                  Object([id |-> JStr(<<"1">>), name |-> JStr("A")])),
              Req("PUT", <<"/users", "/", "1">>, NoBody)}

NoReq == [method |-> "", path |-> << >>, body |-> NoBody]

\* ---------------------------------------------------------------- values
\* type user struct { ID string; Name string }
User(i, n) == [ID |-> i, Name |-> n]
ZeroUser == User(EmptyId, "")

\* A store that starts with another record under "1".
SeedOther == User(<<"1">>, "Other")

Seed == User(<<"1">>, "Charles")

\* ------------------------------------------------------------ the patterns
IsDigit(c) == c \in Digits

HasPrefix(path) == Len(path) >= 1 /\ path[1] = "/users"

\* listUsersRe and createUserRe: ^\/users[\/]*$
MatchUsers(path) ==
    /\ HasPrefix(path)
    /\ \A i \in 2..Len(path) : path[i] = "/"

listUsersRe(path) == MatchUsers(path)
createUserRe(path) == MatchUsers(path)

\* A pattern that takes any characters after "/users/".
MatchUserAny(path) ==
    /\ HasPrefix(path)
    /\ Len(path) >= 2
    /\ path[2] = "/"

\* getUserRe and deleteUserRe: ^\/users\/(\d+)*$
MatchUser(path) ==
    /\ HasPrefix(path)
    /\ Len(path) >= 2
    /\ path[2] = "/"
    /\ \A i \in 3..Len(path) : IsDigit(path[i])

getUserRe(path) == MatchUser(path)
deleteUserRe(path) == MatchUser(path)

\* getUserRe.FindStringSubmatch(path): nil when the path does not match,
\* else the whole match followed by the text of the one group, which is
\* empty when (\d+)* matched no digit.
FindStringSubmatch(path) ==
    IF MatchUser(path) THEN <<path, SubSeq(path, 3, Len(path))>> ELSE << >>

\* The switch of ServeHTTP, first matching case wins.
Route(r) ==
    IF r.method = "GET" /\ listUsersRe(r.path) THEN "List"
    ELSE IF r.method = "GET" /\ getUserRe(r.path) THEN "Get"
    ELSE IF r.method = "POST" /\ createUserRe(r.path) THEN "Create"
    ELSE IF r.method = "DELETE" /\ deleteUserRe(r.path) THEN "Delete"
    ELSE "NotFound"

\* -------------------------------------------------------------- the codec
\* json.NewDecoder(r.Body).Decode(&u) into a zero user: a member that is
\* absent leaves its field "", a member of another JSON type is an error.
MemberOK(o, k) == k \in DOMAIN o => o[k].t = "string"
Member(o, k, zero) == IF k \in DOMAIN o THEN o[k].s ELSE zero

\* A decoder that skips a member of the wrong type instead of failing.
DecodeLenient(body) ==
    IF ~body.json THEN [err |-> TRUE, u |-> ZeroUser]
    ELSE [err |-> FALSE,
          u |-> User(IF MemberOK(body.obj, "id")
                     THEN Member(body.obj, "id", EmptyId) ELSE EmptyId,
                     IF MemberOK(body.obj, "name")
                     THEN Member(body.obj, "name", "") ELSE "")]

Decode(body) ==
    IF ~body.json \/ ~MemberOK(body.obj, "id") \/ ~MemberOK(body.obj, "name")
    THEN [err |-> TRUE, u |-> ZeroUser]
    ELSE [err |-> FALSE,
          u |-> User(Member(body.obj, "id", EmptyId), Member(body.obj, "name", ""))]

\* json.Marshal of a user: the object {"id": ..., "name": ...}.  It cannot
\* fail for a struct of two strings.
MarshalFails(u) == FALSE
Marshal(u) == [id |-> u.ID, name |-> u.Name]

\* json.Marshal of a slice of users: the array of their objects, kept as a
\* bag since the order is the map's iteration order.
MarshalAll(us) ==
    LET objs == {Marshal(u) : u \in BagToSet(us)}
    IN [o \in objs |->
          LET same == {u \in BagToSet(us) : Marshal(u) = o}
              RECURSIVE Sum(_)
              Sum(S) == IF S = {} THEN 0
                        ELSE LET x == CHOOSE x \in S : TRUE
                             IN us[x] + Sum(S \ {x})
          IN Sum(same)]

\* ------------------------------------------------------------- responses
Response(st, kind, body) == [status |-> st, kind |-> kind, body |-> body]
NoResp == Response(0, "none", << >>)
ErrorBody(msg) == [error |-> msg]

notFound == Response(StatusNotFound, "error", ErrorBody("not found"))
badRequest == Response(StatusBadRequest, "error", ErrorBody("bad request"))
internalServerError ==
    Response(StatusInternalServerError, "error", ErrorBody("internal server error"))

\* The tail of Get, Create and Delete: marshal one user and write it.
ReplyUser(u) ==
    IF MarshalFails(u) THEN internalServerError
    ELSE Response(StatusOK, "user", Marshal(u))

\* The tail of List.
ReplyUsers(us) == Response(StatusOK, "list", MarshalAll(us))

\* --------------------------------------------------------------- the map
Present(mp, k) == k \in DOMAIN mp
MapSet(mp, k, v) == [x \in DOMAIN mp \cup {k} |-> IF x = k THEN v ELSE mp[x]]
MapDelete(mp, k) == [x \in DOMAIN mp \ {k} |-> mp[x]]
\* for _, u := range m { users = append(users, u) }
MapValues(mp) ==
    [u \in {mp[k] : k \in DOMAIN mp} |-> Cardinality({k \in DOMAIN mp : mp[k] = u})]

\* ------------------------------------------------------------- the state
VARIABLES
    m,          \* datastore.m
    readers,    \* goroutines holding the RWMutex for reading
    writer,     \* the goroutine holding it for writing, 0 if none
    pc,         \* where each request goroutine stands
    req,        \* the request it serves
    id,         \* matches[1] of Get and Delete
    u,          \* the local u of Create, the local user of Get and Delete
    ok,         \* the local ok of Get and Delete
    users,      \* the local users of List
    resp,       \* the response written
    nreq,       \* requests accepted so far
    \* observers: they record what happened, the program reads none of them
    hist,       \* per id: what the completed Creates and Deletes say about it
    made,       \* the records created so far, while their ids stay distinct
    gx,         \* per GET /users/<id>: hist of the id when the request started
    lx,         \* per List: made when the request started
    solo,       \* per request: no other request on its id overlapped it
    snap,       \* per request: the entry of its id when the request started
    ovl,        \* per Delete: a Create of its id overlapped it
    eff,        \* per Create: the entry it stored; per Delete: the entry it removed
    pristine,   \* no request has been routed to Create or Delete so far
    acq,        \* per request: how many times it has acquired the mutex
    seen,       \* per List: the map when it acquired the mutex
    touched,    \* per request: one of its steps changed the map
    watch       \* which observers record, and the requests clients send

store == <<m, readers, writer>>
locals == <<pc, req, id, u, ok, users, resp, nreq>>
observers == <<hist, made, gx, lx, solo, snap, ovl, eff>>
lockobs == <<acq, seen, touched>>
vars == <<m, readers, writer, pc, req, id, u, ok, users, resp, nreq,
          hist, made, gx, lx, solo, snap, ovl, eff,
          pristine, acq, seen, touched, watch>>

\* --------------------------------------------------------- observer values
Nothing == << >>
Just(x) == <<x>>
Entry(mp, k) == IF Present(mp, k) THEN Just(mp[k]) ELSE Nothing

Unknown == [k |-> "unknown", v |-> ZeroUser]
Rec(x) == [k |-> "rec", v |-> x]
Gone == [k |-> "gone", v |-> ZeroUser]
GoneOverlapped == [k |-> "gone-overlapped", v |-> ZeroUser]

Spoiled == [ok |-> FALSE, recs |-> {}]
Made(S) == [ok |-> TRUE, recs |-> S]

InFlight(q) == pc[q] \notin {"idle", "done"}
Handler(q) == IF pc[q] = "idle" THEN "Idle" ELSE Route(req[q])
\* the id a request in flight works on
Key(q) == IF Handler(q) = "Create" THEN u[q].ID ELSE id[q]
OnKey(q, k) ==
    InFlight(q) /\ Handler(q) \in {"Get", "Create", "Delete"} /\ Key(q) = k
Creating(k) == \E q \in Procs : OnKey(q, k) /\ Handler(q) = "Create"
Deleting(k) == \E q \in Procs : OnKey(q, k) /\ Handler(q) = "Delete"

\* the id a path names: what follows "/users/"
HasPathId(path) == HasPrefix(path) /\ Len(path) >= 2 /\ path[2] = "/"
PathId(path) == SubSeq(path, 3, Len(path))

\* ------------------------------------------------------------------ Init
\* main(): the store holds the seed record, the mutex is free, no request
\* is being served.
Start(w) ==
    /\ watch = w
    /\ m = (Seed.ID :> Seed)
    /\ readers = {}
    /\ writer = 0
    /\ pc = [p \in Procs |-> "idle"]
    /\ req = [p \in Procs |-> NoReq]
    /\ id = [p \in Procs |-> EmptyId]
    /\ u = [p \in Procs |-> ZeroUser]
    /\ ok = [p \in Procs |-> FALSE]
    /\ users = [p \in Procs |-> EmptyBag]
    /\ resp = [p \in Procs |-> NoResp]
    /\ nreq = 0
    /\ hist = [k \in Ids |-> Unknown]
    /\ made = Made({})
    /\ gx = [p \in Procs |-> Unknown]
    /\ lx = [p \in Procs |-> Spoiled]
    /\ solo = [p \in Procs |-> FALSE]
    /\ snap = [p \in Procs |-> Nothing]
    /\ ovl = [p \in Procs |-> FALSE]
    /\ eff = [p \in Procs |-> Nothing]
    /\ pristine = TRUE
    /\ acq = [p \in Procs |-> 0]
    /\ seen = [p \in Procs |-> Nothing]
    /\ touched = [p \in Procs |-> FALSE]

\* ------------------------------------------------------------- the mutex
\* sync.RWMutex: RLock returns once no goroutine holds the lock for writing,
\* Lock once no goroutine holds it at all.  A goroutine blocked in either
\* call is a goroutine whose step is not enabled.
CanRLock == writer = 0

\* A Lock that does not wait for the readers.
CanLockPastReaders == writer = 0

CanLock == writer = 0 /\ readers = {}

\* ------------------------------------------------------------- ServeHTTP
\* A goroutine takes request r and runs ServeHTTP up to the handler's first
\* use of the store (or to the response, when it never uses the store).
\* Goroutines have no identity: the request goes to the first free slot.
Accept(p, r) ==
    /\ pc[p] = "idle"
    /\ \A q \in Procs : q < p => pc[q] # "idle"
    /\ nreq < MaxReqs
    /\ req' = [req EXCEPT ![p] = r]
    /\ nreq' = nreq + 1

\* default: notFound(w, r)
ServeNotFound(p, r) ==
    /\ Route(r) = "NotFound"
    /\ Accept(p, r)
    /\ resp' = [resp EXCEPT ![p] = notFound]
    /\ pc' = [pc EXCEPT ![p] = "done"]
    /\ UNCHANGED <<store, id, u, ok, users>>

\* h.List(w, r), up to line 59
ServeList(p, r) ==
    /\ Route(r) = "List"
    /\ Accept(p, r)
    /\ pc' = [pc EXCEPT ![p] = "L_len"]
    /\ UNCHANGED <<store, id, u, ok, users, resp>>

\* The id extraction that opens Get and Delete.
ExtractId(p, r, next) ==
    LET matches == FindStringSubmatch(r.path)
    IN  IF Len(matches) < 2
        THEN /\ resp' = [resp EXCEPT ![p] = notFound]
             /\ pc' = [pc EXCEPT ![p] = "done"]
             /\ UNCHANGED id
        ELSE /\ id' = [id EXCEPT ![p] = matches[2]]
             /\ pc' = [pc EXCEPT ![p] = next]
             /\ UNCHANGED resp

\* h.Get(w, r), up to the RLock
ServeGet(p, r) ==
    /\ Route(r) = "Get"
    /\ Accept(p, r)
    /\ ExtractId(p, r, "G_rlock")
    /\ UNCHANGED <<store, u, ok, users>>

\* h.Create(w, r), up to the Lock
ServeCreate(p, r) ==
    /\ Route(r) = "Create"
    /\ Accept(p, r)
    /\ LET d == Decode(r.body)
       IN  IF d.err
           THEN /\ resp' = [resp EXCEPT ![p] = badRequest]
                /\ pc' = [pc EXCEPT ![p] = "done"]
                /\ UNCHANGED u
           ELSE /\ u' = [u EXCEPT ![p] = d.u]
                /\ pc' = [pc EXCEPT ![p] = "C_lock"]
                /\ UNCHANGED resp
    /\ UNCHANGED <<store, id, ok, users>>

\* h.Delete(w, r), up to the RLock
ServeDelete(p, r) ==
    /\ Route(r) = "Delete"
    /\ Accept(p, r)
    /\ ExtractId(p, r, "D_rlock")
    /\ UNCHANGED <<store, u, ok, users>>

\* ------------------------------------------------------------------ List
\* users := make([]user, 0, len(h.store.m)): len reads the map before the
\* lock is taken; what it reads only sizes the slice.
ListLen(p) ==
    /\ pc[p] = "L_len"
    /\ pc' = [pc EXCEPT ![p] = "L_rlock"]
    /\ UNCHANGED <<store, req, id, u, ok, users, resp, nreq>>

ListRLock(p) ==
    /\ pc[p] = "L_rlock"
    /\ CanRLock
    /\ readers' = readers \cup {p}
    /\ pc' = [pc EXCEPT ![p] = "L_range"]
    /\ UNCHANGED <<m, writer, req, id, u, ok, users, resp, nreq>>

\* A range that goes on to the marshalling without RUnlock.
ListRangeHold(p) ==
    /\ pc[p] = "L_range"
    /\ users' = [users EXCEPT ![p] = MapValues(m)]
    /\ pc' = [pc EXCEPT ![p] = "L_reply"]
    /\ UNCHANGED <<m, readers, writer, req, id, u, ok, resp, nreq>>

\* the range over the map, then RUnlock
ListRange(p) ==
    /\ pc[p] = "L_range"
    /\ users' = [users EXCEPT ![p] = MapValues(m)]
    /\ readers' = readers \ {p}
    /\ pc' = [pc EXCEPT ![p] = "L_reply"]
    /\ UNCHANGED <<m, writer, req, id, u, ok, resp, nreq>>

ListReply(p) ==
    /\ pc[p] = "L_reply"
    /\ resp' = [resp EXCEPT ![p] = ReplyUsers(users[p])]
    /\ pc' = [pc EXCEPT ![p] = "done"]
    /\ UNCHANGED <<store, req, id, u, ok, users, nreq>>

\* ------------------------------------------------------------------- Get
GetRLock(p) ==
    /\ pc[p] = "G_rlock"
    /\ CanRLock
    /\ readers' = readers \cup {p}
    /\ pc' = [pc EXCEPT ![p] = "G_lookup"]
    /\ UNCHANGED <<m, writer, req, id, u, ok, users, resp, nreq>>

\* user, ok := h.store.m[key]
LookupUser(mp, key) == IF Present(mp, key) THEN mp[key] ELSE ZeroUser
LookupOk(mp, key) == Present(mp, key)

\* A lookup that returns without RUnlock.
LookupHold(p, next) ==
    /\ u' = [u EXCEPT ![p] = LookupUser(m, id[p])]
    /\ ok' = [ok EXCEPT ![p] = LookupOk(m, id[p])]
    /\ readers' = readers
    /\ pc' = [pc EXCEPT ![p] = next]

\* the lookup, then RUnlock
Lookup(p, next) ==
    /\ u' = [u EXCEPT ![p] = LookupUser(m, id[p])]
    /\ ok' = [ok EXCEPT ![p] = LookupOk(m, id[p])]
    /\ readers' = readers \ {p}
    /\ pc' = [pc EXCEPT ![p] = next]

GetLookup(p) ==
    /\ pc[p] = "G_lookup"
    /\ Lookup(p, "G_reply")
    /\ UNCHANGED <<m, writer, req, id, users, resp, nreq>>

GetReply(p) ==
    /\ pc[p] = "G_reply"
    /\ resp' = [resp EXCEPT ![p] = IF ~ok[p] THEN notFound ELSE ReplyUser(u[p])]
    /\ pc' = [pc EXCEPT ![p] = "done"]
    /\ UNCHANGED <<store, req, id, u, ok, users, nreq>>

\* ---------------------------------------------------------------- Create
\* h.store.Lock()
CreateLock(p) ==
    /\ pc[p] = "C_lock"
    /\ CanLock
    /\ writer' = p
    /\ pc' = [pc EXCEPT ![p] = "C_store"]
    /\ UNCHANGED <<m, readers, req, id, u, ok, users, resp, nreq>>

\* A Create that inserts but never overwrites.
StoreUserKeepOld(mp, usr) == IF Present(mp, usr.ID) THEN mp ELSE MapSet(mp, usr.ID, usr)

\* A Create that assigns a fresh map holding only its record.
StoreUserClobber(mp, usr) == (usr.ID :> usr)

\* A Create that stores every record under the key "1".
StoreUserUnderOne(mp, usr) == MapSet(mp, <<"1">>, usr)

\* h.store.m[u.ID] = u
StoreUser(mp, usr) == MapSet(mp, usr.ID, usr)

\* the assignment, then Unlock
CreateStore(p) ==
    /\ pc[p] = "C_store"
    /\ m' = StoreUser(m, u[p])
    /\ writer' = 0
    /\ pc' = [pc EXCEPT ![p] = "C_reply"]
    /\ UNCHANGED <<readers, req, id, u, ok, users, resp, nreq>>

CreateReply(p) ==
    /\ pc[p] = "C_reply"
    /\ resp' = [resp EXCEPT ![p] = ReplyUser(u[p])]
    /\ pc' = [pc EXCEPT ![p] = "done"]
    /\ UNCHANGED <<store, req, id, u, ok, users, nreq>>

\* ---------------------------------------------------------------- Delete
DeleteRLock(p) ==
    /\ pc[p] = "D_rlock"
    /\ CanRLock
    /\ readers' = readers \cup {p}
    /\ pc' = [pc EXCEPT ![p] = "D_lookup"]
    /\ UNCHANGED <<m, writer, req, id, u, ok, users, resp, nreq>>

DeleteLookup(p) ==
    /\ pc[p] = "D_lookup"
    /\ Lookup(p, "D_check")
    /\ UNCHANGED <<m, writer, req, id, users, resp, nreq>>

\* if !ok { notFound(w, r); return }
DeleteCheck(p) ==
    /\ pc[p] = "D_check"
    /\ IF ~ok[p]
       THEN /\ resp' = [resp EXCEPT ![p] = notFound]
            /\ pc' = [pc EXCEPT ![p] = "done"]
       ELSE /\ pc' = [pc EXCEPT ![p] = "D_lock"]
            /\ UNCHANGED resp
    /\ UNCHANGED <<store, req, id, u, ok, users, nreq>>

\* h.store.Lock()
DeleteLock(p) ==
    /\ pc[p] = "D_lock"
    /\ CanLock
    /\ writer' = p
    /\ pc' = [pc EXCEPT ![p] = "D_remove"]
    /\ UNCHANGED <<m, readers, req, id, u, ok, users, resp, nreq>>

\* A Delete that answers without removing.
RemoveUserNoop(mp, k) == mp

\* A removal that empties the map when the key is absent.
RemoveUserStrict(mp, k) == IF Present(mp, k) THEN MapDelete(mp, k) ELSE << >>

\* delete(h.store.m, matches[1])
RemoveUser(mp, k) == MapDelete(mp, k)

\* the delete, then Unlock
DeleteRemove(p) ==
    /\ pc[p] = "D_remove"
    /\ m' = RemoveUser(m, id[p])
    /\ writer' = 0
    /\ pc' = [pc EXCEPT ![p] = "D_reply"]
    /\ UNCHANGED <<readers, req, id, u, ok, users, resp, nreq>>

DeleteReply(p) ==
    /\ pc[p] = "D_reply"
    /\ resp' = [resp EXCEPT ![p] = ReplyUser(u[p])]
    /\ pc' = [pc EXCEPT ![p] = "done"]
    /\ UNCHANGED <<store, req, id, u, ok, users, nreq>>

\* ---------------------------------------------------------- end of request
\* The response is out and the goroutine ends; its slot can serve again.
Finish(p) ==
    /\ pc[p] = "done"
    /\ pc' = [pc EXCEPT ![p] = "idle"]
    /\ req' = [req EXCEPT ![p] = NoReq]
    /\ id' = [id EXCEPT ![p] = EmptyId]
    /\ u' = [u EXCEPT ![p] = ZeroUser]
    /\ ok' = [ok EXCEPT ![p] = FALSE]
    /\ users' = [users EXCEPT ![p] = EmptyBag]
    /\ resp' = [resp EXCEPT ![p] = NoResp]
    /\ UNCHANGED <<store, nreq>>

\* -------------------------------------------------------------- observers
\* Every step moves one goroutine; what the step was shows in its pc.
Actor == CHOOSE p \in Procs : pc'[p] # pc[p]
Started(p) == pc[p] = "idle" /\ pc'[p] # "idle"
Stored(p) == pc[p] = "C_store" /\ pc'[p] = "C_reply"
Removed(p) == pc[p] = "D_remove" /\ pc'[p] = "D_reply"
Replied(p) == pc[p] # "done" /\ pc'[p] = "done"
Finished(p) == pc[p] = "done" /\ pc'[p] = "idle"

\* what a request that starts is about
IsCreate(r) == Route(r) = "Create" /\ ~Decode(r.body).err
CreateKey(r) == Decode(r.body).u.ID
OnPath(r) == HasPathId(r.path) /\ PathId(r.path) \in Ids
IsGet(r) == r.method = "GET" /\ OnPath(r)
IsDelete(r) == r.method = "DELETE" /\ OnPath(r)
Routed(r) == IsCreate(r) \/ Route(r) \in {"Get", "Delete"}
RoutedKey(r) == IF Route(r) = "Create" THEN CreateKey(r) ELSE PathId(r.path)

\* hist[k]: Rec(x) once a Create has stored x under k with no Delete of k
\* running, until a Delete of k starts; Gone once a Delete of k has answered
\* 200 with no Create of k running beside it, GoneOverlapped when one was,
\* both until a Create of k starts.
\* gx[p], for a GET on /users/<k>: hist[k] at its start, Unknown when a
\* Create or Delete of k was running then or has started since.
\* ovl[p], for a Delete: a Create of its id has run beside it.
ObsHist ==
    LET p == Actor
        r == req'[p]
        pk == PathId(r.path)
        ck == CreateKey(r)
    IN  IF Started(p)
        THEN /\ hist' = [x \in Ids |->
                          IF IsCreate(r) /\ x = ck
                             /\ hist[x].k \in {"gone", "gone-overlapped"}
                          THEN Unknown
                          ELSE IF IsDelete(r) /\ x = pk /\ hist[x].k = "rec"
                          THEN Unknown
                          ELSE hist[x]]
             /\ gx' = [q \in Procs |->
                        IF q = p
                        THEN IF ~IsGet(r) THEN Unknown
                             ELSE IF hist[pk].k = "rec" /\ (Creating(pk) \/ Deleting(pk))
                             THEN Unknown
                             ELSE hist[pk]
                        ELSE IF InFlight(q) /\ Handler(q) = "Get"
                                /\ IsCreate(r) /\ id[q] = ck
                        THEN Unknown
                        ELSE IF InFlight(q) /\ Handler(q) = "Get"
                                /\ IsDelete(r) /\ id[q] = pk /\ gx[q].k = "rec"
                        THEN Unknown
                        ELSE gx[q]]
             /\ ovl' = [q \in Procs |->
                         IF q = p THEN Route(r) = "Delete" /\ Creating(pk)
                         ELSE IF IsCreate(r) /\ InFlight(q) /\ Handler(q) = "Delete"
                                 /\ id[q] = ck
                         THEN TRUE
                         ELSE ovl[q]]
        ELSE IF Stored(p)
        THEN /\ hist' = [hist EXCEPT ![u[p].ID] =
                           IF Deleting(u[p].ID) THEN Unknown ELSE Rec(u[p])]
             /\ UNCHANGED <<gx, ovl>>
        ELSE IF Replied(p) /\ Handler(p) = "Delete" /\ resp'[p].status = StatusOK
        THEN /\ hist' = [hist EXCEPT ![id[p]] =
                           IF ovl[p] THEN GoneOverlapped ELSE Gone]
             /\ UNCHANGED <<gx, ovl>>
        ELSE IF Finished(p)
        THEN /\ gx' = [gx EXCEPT ![p] = Unknown]
             /\ ovl' = [ovl EXCEPT ![p] = FALSE]
             /\ UNCHANGED hist
        ELSE UNCHANGED <<hist, gx, ovl>>

\* made: the records of the Creates that have answered, as long as their ids
\* are pairwise distinct and no DELETE has been sent.
\* lx[p], for a List: made at its start, Spoiled when a Create was running
\* then or a Create or DELETE has started since.
ObsMade ==
    LET p == Actor
        r == req'[p]
    IN  IF Started(p)
        THEN /\ made' = IF r.method = "DELETE" THEN Spoiled ELSE made
             /\ lx' = [q \in Procs |->
                        IF q = p
                        THEN IF Route(r) = "List" /\ made.ok
                                /\ ~\E q2 \in Procs :
                                       InFlight(q2) /\ Handler(q2) = "Create"
                             THEN made ELSE Spoiled
                        ELSE IF InFlight(q) /\ Handler(q) = "List"
                                /\ (IsCreate(r) \/ r.method = "DELETE")
                        THEN Spoiled
                        ELSE lx[q]]
        ELSE IF Replied(p) /\ Handler(p) = "Create" /\ resp'[p].status = StatusOK
        THEN /\ made' = IF made.ok /\ u[p].ID \notin {x.ID : x \in made.recs}
                        THEN Made(made.recs \cup {u[p]})
                        ELSE Spoiled
             /\ UNCHANGED lx
        ELSE IF Finished(p)
        THEN /\ lx' = [lx EXCEPT ![p] = Spoiled]
             /\ UNCHANGED made
        ELSE UNCHANGED <<made, lx>>

\* solo[p], for a Get, Create or Delete: no other Get, Create or Delete of
\* the same id was running when it started or has started since.
\* snap[p]: the entry of its id when it started.
ObsSolo ==
    LET p == Actor
        r == req'[p]
        rk == RoutedKey(r)
    IN  IF Started(p)
        THEN /\ solo' = [q \in Procs |->
                          IF q = p
                          THEN Routed(r) /\ ~\E q2 \in Procs \ {p} : OnKey(q2, rk)
                          ELSE IF Routed(r) /\ pc[q] # "idle"
                                  /\ Handler(q) \in {"Get", "Create", "Delete"}
                                  /\ Key(q) = rk
                          THEN FALSE
                          ELSE solo[q]]
             /\ snap' = [snap EXCEPT ![p] = IF Routed(r) THEN Entry(m, rk) ELSE Nothing]
        ELSE IF Finished(p)
        THEN /\ solo' = [solo EXCEPT ![p] = FALSE]
             /\ snap' = [snap EXCEPT ![p] = Nothing]
        ELSE UNCHANGED <<solo, snap>>

\* eff[p]: the entry a Create left under its id, the entry a Delete took out.
ObsEff ==
    LET p == Actor
    IN  IF Stored(p) THEN eff' = [eff EXCEPT ![p] = Entry(m', u[p].ID)]
        ELSE IF Removed(p) THEN eff' = [eff EXCEPT ![p] = Entry(m, id[p])]
        ELSE IF Finished(p) THEN eff' = [eff EXCEPT ![p] = Nothing]
        ELSE UNCHANGED eff

\* pristine: until a request is routed to Create or Delete.
ObsSeed ==
    LET p == Actor
    IN  pristine' = (pristine /\ ~(Started(p) /\ Route(req'[p]) \in {"Create", "Delete"}))

\* acq[p]: how many times the request has come to hold the mutex, for
\* reading or for writing.
\* seen[p], for a List: the map at the instant its RLock returned.
\* touched[p]: a step of the request has changed the map.
ObsLock ==
    LET p == Actor
        locked == \/ p \in readers' /\ p \notin readers
                  \/ writer' = p /\ writer # p
    IN  IF Finished(p)
        THEN /\ acq' = [acq EXCEPT ![p] = 0]
             /\ seen' = [seen EXCEPT ![p] = Nothing]
             /\ touched' = [touched EXCEPT ![p] = FALSE]
        ELSE /\ acq' = IF locked THEN [acq EXCEPT ![p] = @ + 1] ELSE acq
             /\ seen' = IF locked /\ Handler(p) = "List"
                         THEN [seen EXCEPT ![p] = Just(m)] ELSE seen
             /\ touched' = IF m' # m THEN [touched EXCEPT ![p] = TRUE] ELSE touched

\* ------------------------------------------------------------- workloads
Post(i, n) == Req("POST", <<"/users">>, Object([id |-> JStr(i), name |-> JStr(n)]))
Get(i) == Req("GET", <<"/users", "/">> \o i, NoBody)
Delete(i) == Req("DELETE", <<"/users", "/">> \o i, NoBody)
Put(i) == Req("PUT", <<"/users", "/">> \o i, NoBody)

PostEmpty == Req("POST", <<"/users">>, Object(<< >>))
Junk == {Put(<<"1">>), Req("POST", <<"/users", "/", "1">>, NoBody)}

\* the requests clients send, by what is observed
Load ==
    CASE watch = "eff" ->
            {Get(EmptyId), Get(<<"1">>), Delete(<<"1">>),
             Post(<<"1">>, "A"), Post(<<"a">>, "A")} \cup Junk
      [] watch = "route" -> Requests
      [] watch = "hist" ->
            {Get(EmptyId), Get(<<"1">>), Get(<<"a">>), Delete(<<"1">>),
             Post(<<"1">>, "A"), Post(<<"1">>, "B"), Post(<<"a">>, "A")} \cup Junk
      [] watch = "made" ->
            {Get(EmptyId), Get(<<"1">>), Delete(<<"1">>),
             Post(<<"1">>, "A"), Post(<<"a">>, "A")} \cup Junk
      [] watch = "solo" ->
            {Get(EmptyId), Get(<<"1">>), Delete(<<"1">>), Delete(EmptyId),
             PostEmpty, Post(<<"a">>, "A")} \cup Junk
      [] watch = "seed" ->
            {Get(EmptyId), Get(<<"1">>), Get(<<"a">>), Delete(<<"1">>),
             Post(<<"1">>, "A"), Post(<<"a">>, "A")} \cup Junk
      [] watch = "lock" ->
            {Get(EmptyId), Get(<<"1">>), Delete(<<"1">>), Delete(<<"a">>),
             Post(<<"1">>, "A"), Post(<<"a">>, "A"),
             Req("POST", <<"/users">>, Garbage)} \cup Junk
      [] watch = "live" ->
            {Get(EmptyId), Get(<<"1">>), Delete(<<"1">>), Post(<<"1">>, "A"),
             Put(<<"1">>)}

Observe ==
    CASE watch = "eff" ->
            ObsEff /\ UNCHANGED <<hist, gx, ovl, made, lx, solo, snap, pristine, lockobs>>
      [] watch = "route" -> UNCHANGED <<observers, pristine, lockobs>>
      [] watch = "hist" ->
            ObsHist /\ UNCHANGED <<made, lx, solo, snap, eff, pristine, lockobs>>
      [] watch = "made" ->
            ObsMade /\ UNCHANGED <<hist, gx, ovl, solo, snap, eff, pristine, lockobs>>
      [] watch = "solo" ->
            ObsSolo /\ UNCHANGED <<hist, gx, ovl, made, lx, eff, pristine, lockobs>>
      [] watch = "seed" -> ObsSeed /\ UNCHANGED <<observers, lockobs>>
      [] watch = "lock" -> ObsLock /\ UNCHANGED <<observers, pristine>>
      [] watch = "live" -> UNCHANGED <<observers, pristine, lockobs>>

\* ------------------------------------------------------------ scheduling
LocalPcs == {"L_reply", "G_reply", "C_reply", "D_check", "D_reply", "done"}

\* A goroutine that stands before a step that uses only its own locals and
\* its ResponseWriter takes it before any other goroutine moves: no other
\* goroutine can tell when it is taken.
NoneLocal == \A q \in Procs : pc[q] \notin LocalPcs

Seen == Observe /\ UNCHANGED watch

Next ==
    \E p \in Procs :
        \/ \E r \in Load : NoneLocal /\ ServeNotFound(p, r) /\ Seen
        \/ \E r \in Load : NoneLocal /\ ServeList(p, r) /\ Seen
        \/ \E r \in Load : NoneLocal /\ ServeGet(p, r) /\ Seen
        \/ \E r \in Load : NoneLocal /\ ServeCreate(p, r) /\ Seen
        \/ \E r \in Load : NoneLocal /\ ServeDelete(p, r) /\ Seen
        \/ NoneLocal /\ ListLen(p) /\ Seen
        \/ NoneLocal /\ ListRLock(p) /\ Seen
        \/ NoneLocal /\ ListRange(p) /\ Seen
        \/ ListReply(p) /\ Seen
        \/ NoneLocal /\ GetRLock(p) /\ Seen
        \/ NoneLocal /\ GetLookup(p) /\ Seen
        \/ GetReply(p) /\ Seen
        \/ NoneLocal /\ CreateLock(p) /\ Seen
        \/ NoneLocal /\ CreateStore(p) /\ Seen
        \/ CreateReply(p) /\ Seen
        \/ NoneLocal /\ DeleteRLock(p) /\ Seen
        \/ NoneLocal /\ DeleteLookup(p) /\ Seen
        \/ DeleteCheck(p) /\ Seen
        \/ NoneLocal /\ DeleteLock(p) /\ Seen
        \/ NoneLocal /\ DeleteRemove(p) /\ Seen
        \/ DeleteReply(p) /\ Seen
        \/ Finish(p) /\ Seen

\* -------------------------------------------------------- specifications
Init == Start("eff")
Spec == Init /\ [][Next]_vars

InitRoute == Start("route")
SpecRoute == InitRoute /\ [][Next]_vars

InitHist == Start("hist")
SpecHist == InitHist /\ [][Next]_vars

InitMade == Start("made")
SpecMade == InitMade /\ [][Next]_vars

InitSolo == Start("solo")
SpecSolo == InitSolo /\ [][Next]_vars

InitSeed == Start("seed")
SpecSeed == InitSeed /\ [][Next]_vars

InitLock == Start("lock")
SpecLock == InitLock /\ [][Next]_vars

\* The Go scheduler runs every goroutine that can run: a step that stays
\* possible is taken.
InitLive == Start("live")
SpecLive == InitLive /\ [][Next]_vars /\ WF_vars(Next)

\* ================================================================ claims
Done(p) == pc[p] = "done"
Answered(p, h) == Done(p) /\ Handler(p) = h
IsOK(p) == resp[p].status = StatusOK
RepliedUser(p, x) ==
    /\ resp[p].status = StatusOK
    /\ resp[p].kind = "user"
    /\ resp[p].body = Marshal(x)
Is(p, rsp) ==
    /\ resp[p].status = rsp.status
    /\ resp[p].kind = rsp.kind
    /\ resp[p].body = rsp.body
IsDigits(i) == Len(i) >= 1 /\ \A n \in 1..Len(i) : IsDigit(i[n])

\* ---------------------------------------------------------------- C1
\* C1 as stated: for every id, a GET /users/<id> that starts once the Creates
\* of that id have answered, with no Delete of the id since the last of them
\* stored its record, answers 200 with that record.
C1_Original ==
    \A p \in Procs :
        Done(p) /\ gx[p].k = "rec" => RepliedUser(p, gx[p].v)

\* C1 (amended): the same for every id made of one or more decimal digits.
C1_GetReturnsLastCreate ==
    \A p \in Procs :
        Done(p) /\ gx[p].k = "rec" /\ IsDigits(PathId(req[p].path))
            => RepliedUser(p, gx[p].v)

C1_Witness ==
    \E p \in Procs :
        /\ Answered(p, "Get")
        /\ gx[p] = Rec(User(<<"1">>, "B"))
        /\ nreq = 3
        /\ IsOK(p)

\* ---------------------------------------------------------------- C2
\* C2: a Delete that answers 200 answers with the record its removal step
\* took out of the map.
C2_DeleteReturnsRemoved ==
    \A p \in Procs :
        Answered(p, "Delete") /\ IsOK(p)
            => eff[p] # Nothing /\ resp[p].body = Marshal(eff[p][1])

\* ---------------------------------------------------------------- C3
\* The sequential store: what a request on key k answers, and what it leaves
\* under k, when the entry under k was e.
SeqAnswer(h, r, e) ==
    IF h = "Create" THEN ReplyUser(Decode(r.body).u)
    ELSE IF e = Nothing THEN notFound
    ELSE ReplyUser(e[1])
SeqEntry(h, r, e) ==
    IF h = "Create" THEN Just(Decode(r.body).u)
    ELSE IF h = "Delete" THEN Nothing
    ELSE e

\* C3: a Get, Create or Delete that no request on the same id overlapped
\* answers what the sequential store answers and leaves under its id what the
\* sequential store leaves, whatever runs beside it on other ids.
C3_DisjointIdsSequential ==
    \A p \in Procs :
        Done(p) /\ solo[p]
            => /\ Is(p, SeqAnswer(Handler(p), req[p], snap[p]))
               /\ Entry(m, Key(p)) = SeqEntry(Handler(p), req[p], snap[p])

C3_Witness ==
    \E p \in Procs :
        /\ Answered(p, "Create")
        /\ solo[p]
        /\ IsOK(p)
        /\ \E q \in Procs \ {p} :
              /\ Handler(q) = "Delete"
              /\ pc[q] = "D_lock"
              /\ solo[q]
              /\ Key(q) # Key(p)

\* ---------------------------------------------------------------- C4
\* C4 as stated: a GET /users/<id> that starts after a Delete of the id has
\* answered 200, no Create of the id having started since that answer,
\* answers 404.
C4_Original ==
    \A p \in Procs :
        Answered(p, "Get") /\ gx[p].k \in {"gone", "gone-overlapped"}
            => Is(p, notFound)

\* C4 (amended): the same when, besides, no Create of the id ran beside the
\* Delete.
C4_GetAfterDeleteNotFound ==
    \A p \in Procs :
        Answered(p, "Get") /\ gx[p].k = "gone" => Is(p, notFound)

C4_Witness ==
    \E p \in Procs :
        Answered(p, "Get") /\ gx[p].k = "gone" /\ Is(p, notFound)

\* ---------------------------------------------------------------- C5
\* a path that names no id after "/users/", or one that is not all digits
BadSuffix(path) ==
    /\ HasPathId(path)
    /\ ~IsDigits(PathId(path))

\* C5: a DELETE on such a path never reaches the removal and is answered 404.
C5_BadDeleteIs404 ==
    \A p \in Procs :
        req[p].method = "DELETE" /\ BadSuffix(req[p].path)
            => /\ pc[p] \notin {"D_lock", "D_remove", "D_reply"}
               /\ Done(p) => Is(p, notFound)

\* ---------------------------------------------------------------- C6
Marshalled(S) == {Marshal(x) : x \in S}

\* C6 as stated: a List that starts once N Creates with pairwise distinct ids
\* have answered, no DELETE sent, returns those N records and no other.
C6_Original ==
    \A p \in Procs :
        Answered(p, "List") /\ lx[p].ok
            => /\ IsOK(p)
               /\ BagToSet(resp[p].body) = Marshalled(lx[p].recs)
               /\ BagCardinality(resp[p].body) = Cardinality(lx[p].recs)

\* C6 (amended): it returns those N records, and the seed record besides
\* when none of the Creates had the seed's id.
WithSeed(S) == IF Seed.ID \in {x.ID : x \in S} THEN S ELSE S \cup {Seed}

C6_ListReturnsCreatedAndSeed ==
    \A p \in Procs :
        Answered(p, "List") /\ lx[p].ok
            => /\ IsOK(p)
               /\ BagToSet(resp[p].body) = Marshalled(WithSeed(lx[p].recs))
               /\ BagCardinality(resp[p].body) = Cardinality(WithSeed(lx[p].recs))

C6_Witness ==
    \E p \in Procs :
        /\ Answered(p, "List")
        /\ lx[p].ok
        /\ Cardinality(lx[p].recs) = 2
        /\ BagCardinality(resp[p].body) = 2

\* ---------------------------------------------------------------- C7
ListCount(mp) == BagCardinality(MarshalAll(MapValues(mp)))

\* C7: the store step of a Create whose id is in the map puts its record
\* under that id, leaves every other entry as it was, and leaves the number
\* of records a List returns as it was.
C7_CreateReplaces ==
    [][\A p \in Procs :
          Stored(p) /\ Present(m, u[p].ID)
              => /\ m' = [m EXCEPT ![u[p].ID] = u[p]]
                 /\ ListCount(m') = ListCount(m)]_vars

C7_Witness ==
    \E p \in Procs :
        /\ Answered(p, "Create")
        /\ nreq = 1
        /\ m = (<<"1">> :> User(<<"1">>, "A"))

\* ---------------------------------------------------------------- C8
\* C8: a Create whose body decodes answers 200 with the entry it left in the
\* map under its id.
C8_CreateEchoesStored ==
    \A p \in Procs :
        Answered(p, "Create") /\ ~Decode(req[p].body).err
            => eff[p] # Nothing /\ RepliedUser(p, eff[p][1])

C8_Witness ==
    \E p \in Procs :
        /\ Answered(p, "Create")
        /\ u[p].ID = <<"a">>
        /\ IsOK(p)
        /\ eff[p] = Just(u[p])

\* ---------------------------------------------------------------- C9
\* a body that is not JSON text, or whose "id" or "name" member is not a
\* JSON string, cannot be decoded into a user
Undecodable(body) ==
    \/ ~body.json
    \/ \E k \in {"id", "name"} : k \in DOMAIN body.obj /\ body.obj[k].t # "string"

BadCreate(r) == Route(r) = "Create" /\ Undecodable(r.body)

\* C9: a Create whose body does not decode goes from arrival to its 400
\* answer in one step that leaves the map and the mutex as they were, and it
\* never holds the mutex.
C9_BadBodyIs400 ==
    /\ [](\A p \in Procs :
            pc[p] # "idle" /\ BadCreate(req[p])
                => Done(p) /\ Is(p, badRequest) /\ p \notin readers /\ writer # p)
    /\ [][\A p \in Procs :
            Started(p) /\ BadCreate(req'[p]) => UNCHANGED store]_vars

C9_Witness ==
    \E p \in Procs :
        Done(p) /\ BadCreate(req[p]) /\ Is(p, badRequest) /\ req[p].body.json

\* ---------------------------------------------------------------- C10
IsBare(path) == HasPrefix(path) /\ \A i \in 2..Len(path) : path[i] = "/"
HasDigitsId(path) == HasPathId(path) /\ IsDigits(PathId(path))

\* the handler the routing contract names for a request
Contract(r) ==
    IF r.method = "GET" /\ IsBare(r.path) THEN "List"
    ELSE IF r.method = "GET" /\ HasDigitsId(r.path) THEN "Get"
    ELSE IF r.method = "POST" /\ IsBare(r.path) THEN "Create"
    ELSE IF r.method = "DELETE" /\ HasDigitsId(r.path) THEN "Delete"
    ELSE "NotFound"

PcsOf(h) ==
    CASE h = "List" -> {"L_len", "L_rlock", "L_range", "L_reply", "done"}
      [] h = "Get" -> {"G_rlock", "G_lookup", "G_reply", "done"}
      [] h = "Create" -> {"C_lock", "C_store", "C_reply", "done"}
      [] h = "Delete" -> {"D_rlock", "D_lookup", "D_check", "D_lock", "D_remove",
                          "D_reply", "done"}
      [] h = "NotFound" -> {"done"}

\* C10: a request runs the handler the contract names for it; one the
\* contract names no handler for never comes to write the map and is
\* answered 404.
C10_RoutingContract ==
    \A p \in Procs :
        pc[p] # "idle" =>
            IF Contract(req[p]) # "NotFound"
            THEN pc[p] \in PcsOf(Contract(req[p]))
            ELSE /\ pc[p] \notin {"C_lock", "C_store", "C_reply",
                                  "D_lock", "D_remove", "D_reply"}
                 /\ Done(p) => Is(p, notFound)

\* ---------------------------------------------------------------- C11
\* C11: as long as no request has been routed to Create or Delete, the map
\* holds the one record {"1", "Charles"} under "1", a GET /users/1 that has
\* answered has answered 200 with that record, and a List that has answered
\* has answered with that record alone.
C11_SeedOnly ==
    pristine =>
        /\ m = (<<"1">> :> User(<<"1">>, "Charles"))
        /\ \A p \in Procs :
              /\ Answered(p, "Get") /\ id[p] = <<"1">>
                    => RepliedUser(p, User(<<"1">>, "Charles"))
              /\ Answered(p, "List")
                    => /\ IsOK(p)
                       /\ resp[p].kind = "list"
                       /\ resp[p].body = SetToBag({Marshal(User(<<"1">>, "Charles"))})

C11_Witness ==
    /\ pristine
    /\ \E p, q \in Procs :
          /\ Answered(p, "Get") /\ id[p] = <<"1">> /\ IsOK(p)
          /\ Handler(q) = "List" /\ pc[q] = "L_range"

\* ---------------------------------------------------------------- C12
\* where a goroutine stands before a step that reads the map (its length,
\* its entries, one entry), and before one that writes it
ReadPcs == {"L_len", "L_range", "G_lookup", "D_lookup"}
WritePcs == {"C_store", "D_remove"}
HoldsRead(p) == p \in readers
HoldsWrite(p) == writer = p

\* C12: a goroutine about to read the map holds the mutex, one about to
\* write it holds it for writing, and no goroutine is about to write the map
\* while another is about to read or write it.
C12_LockGuardsMap ==
    \A p \in Procs :
        /\ pc[p] \in ReadPcs => HoldsRead(p) \/ HoldsWrite(p)
        /\ pc[p] \in WritePcs => HoldsWrite(p)
        /\ \A q \in Procs \ {p} :
              ~(pc[p] \in WritePcs /\ pc[q] \in ReadPcs \cup WritePcs)

\* ---------------------------------------------------------------- C13
\* C13: a request comes to hold the mutex at most once, and, as in a
\* sequential run, a Delete that has answered 200 has itself taken the record
\* out of the map.
C13_OneCriticalSection ==
    \A p \in Procs :
        /\ acq[p] <= 1
        /\ Answered(p, "Delete") /\ IsOK(p) => touched[p]

\* ---------------------------------------------------------------- C14
\* C14: the removal step of a Delete whose id is no longer in the map leaves
\* the map as it is and goes on to the answer, and a Delete that passed its
\* check and found nothing to remove has answered 200 with the record it read
\* under its id during the check.
C14_VanishedRemovalIsNoop ==
    /\ [](\A p \in Procs :
            Answered(p, "Delete") /\ ok[p] /\ eff[p] = Nothing
                => RepliedUser(p, u[p]) /\ u[p].ID = id[p])
    /\ [][\A p \in Procs :
            Removed(p) /\ ~Present(m, id[p])
                => m' = m /\ pc'[p] = "D_reply"]_vars

C14_Witness ==
    \E p \in Procs :
        /\ Answered(p, "Delete")
        /\ ok[p]
        /\ eff[p] = Nothing
        /\ IsOK(p)
        /\ Present(m, <<"a">>)

\* ---------------------------------------------------------------- C15
\* C15: the map does not change while a List holds the mutex, and a List
\* that has answered has answered 200 with the records, all of them and no
\* other, that the map held at the instant its RLock returned.
C15_ListIsSnapshot ==
    /\ [](\A p \in Procs :
            Answered(p, "List")
                => /\ seen[p] # Nothing
                   /\ Is(p, ReplyUsers(MapValues(seen[p][1]))))
    /\ [][\A p \in Procs :
            Handler(p) = "List" /\ HoldsRead(p) => m' = m]_vars

C15_Witness ==
    \E p \in Procs :
        /\ Answered(p, "List")
        /\ BagCardinality(resp[p].body) = 2
        /\ \E q \in Procs : Handler(q) = "Create" /\ pc[q] = "C_lock"

\* ---------------------------------------------------------------- C16
Holds(p) == HoldsRead(p) \/ HoldsWrite(p)
Acquires(p) ==
    \/ p \in readers' /\ p \notin readers
    \/ writer' = p /\ writer # p

\* C16: every request that has been accepted comes to be answered; a
\* goroutine that takes the mutex does not hold it already; only requests in
\* flight hold the mutex, so it is free when none is; and a response, once
\* written, is the one response of its request.
C16_EveryRequestAnswered ==
    /\ \A p \in Procs : (pc[p] # "idle") ~> Done(p)
    /\ [](\A p \in Procs :
            /\ Holds(p) => InFlight(p)
            /\ Done(p) => resp[p].status # 0)
    /\ []((\A p \in Procs : ~InFlight(p)) => readers = {} /\ writer = 0)
    /\ [][\A p \in Procs :
            /\ Acquires(p) => ~Holds(p)
            /\ resp[p].status # 0 /\ ~Finished(p)
                  => /\ resp'[p].status = resp[p].status
                     /\ resp'[p].kind = resp[p].kind]_vars

C16_Witness ==
    \E p, q \in Procs :
        /\ pc[p] = "C_lock"
        /\ pc[q] = "D_lookup"
        /\ HoldsRead(q)
        /\ ~CanLock

\* ---------------------------------------------------------------- C17
\* where a goroutine stands before it marshals its result and writes it
ReplyPcs == {"L_reply", "G_reply", "C_reply", "D_reply"}
Writes(p) == resp[p].status = 0 /\ resp'[p].status # 0

\* C17: a goroutine about to marshal its result holds the mutex in neither
\* mode, and the step that writes a response, of any status, starts and ends
\* with its goroutine holding the mutex in neither mode.
C17_NoReplyUnderLock ==
    /\ [](\A p \in Procs : pc[p] \in ReplyPcs \cup {"done"} => ~Holds(p))
    /\ [][\A p \in Procs :
            Writes(p) => ~Holds(p) /\ p \notin readers' /\ writer' # p]_vars

C17_Witness ==
    \E p, q \in Procs :
        /\ pc[p] = "L_reply"
        /\ HoldsRead(q)
        /\ Present(m, <<"a">>)

\* ---------------------------------------------------------------- C18
\* C18: every entry of the map is keyed by the ID of the record it holds.
C18_KeyIsRecordId ==
    \A k \in DOMAIN m : m[k].ID = k

C18_Witness ==
    /\ Present(m, EmptyId)
    /\ Present(m, <<"a">>)
    /\ m[EmptyId].ID = EmptyId
    /\ m[<<"a">>].ID = <<"a">>
    /\ ~Present(m, <<"1">>)

\* ---------------------------------------------------------------- C19
\* the entries of mp and mq agree everywhere but under k
SameBut(mp, mq, k) ==
    \A x \in (DOMAIN mp \cup DOMAIN mq) \ {k} : Entry(mp, x) = Entry(mq, x)

\* C19: a request some step of which changed the map is a Create whose body
\* decoded or a Delete that passed its check, and it answers 200, so that no
\* List, no Get and no request answered 404 or 400 has changed the map; and
\* a step that changes the map is a step of a Create that changes nothing but
\* the entry under its record's id, or of a Delete that passed its check and
\* changes nothing but the entry under its path's id.
C19_OnlyCreateAndDeleteWrite ==
    /\ [](\A p \in Procs :
            /\ touched[p]
                  => \/ Handler(p) = "Create" /\ ~Decode(req[p].body).err
                     \/ Handler(p) = "Delete" /\ ok[p]
            /\ Done(p) /\ touched[p] => IsOK(p))
    /\ [][m' # m =>
            \/ Handler(Actor) = "Create" /\ SameBut(m, m', u[Actor].ID)
            \/ /\ Handler(Actor) = "Delete"
               /\ ok[Actor]
               /\ PathId(req[Actor].path) = id[Actor]
               /\ SameBut(m, m', id[Actor])]_vars

C19_Witness ==
    \E p, q \in Procs :
        /\ Answered(p, "Delete")
        /\ touched[p]
        /\ Present(m, <<"a">>)
        /\ Handler(q) = "Get"
        /\ InFlight(q)
        /\ ~touched[q]

\* ---------------------------------------------------------------- C20
HasNonDigit(i) == \E n \in 1..Len(i) : ~IsDigit(i[n])

\* C20: an entry whose key has a character that is no digit stays in the
\* map at every step, under the same key, and no Get and no Delete answers
\* 200 with a record whose id has such a character.
C20_NonDigitIdStays ==
    /\ [](\A p \in Procs :
            Done(p) /\ Handler(p) \in {"Get", "Delete"} /\ IsOK(p)
                => resp[p].kind = "user" /\ ~HasNonDigit(resp[p].body.id))
    /\ [][\A k \in DOMAIN m :
            HasNonDigit(k) => Present(m', k) /\ m'[k].ID = k]_vars

C20_Witness ==
    /\ Present(m, <<"a">>)
    /\ nreq = 3
    /\ \E p \in Procs :
          /\ req[p] \in {Delete(<<"a">>), Get(<<"a">>)}
          /\ Done(p)
          /\ Is(p, notFound)

====
